---- MODULE Spec2Model ----
(***************************************************************************)
(* Model of the two population-based optimizers of topics/optimizers.ipynb *)
(* (minimize_de and minimize_pso).  Real coordinates are modelled on an    *)
(* integer grid; every call of np.random is a nondeterministic choice.     *)
(***************************************************************************)
EXTENDS Integers, Sequences, FiniteSets, TLC

VARIABLES
    call,        \* the function called: "minimize_de" or "minimize_pso"
    pc,          \* position in the running call
    function,    \* the objective (name of the callable passed in)
    lower,       \* bounds[0]
    upper,       \* bounds[1]
    steps,       \* argument steps
    n,           \* argument n
    mutation,    \* argument mutation (minimize_de)
    crossover,   \* argument crossover (minimize_de), in units of 1/RandLevels
    omega,       \* argument ω (minimize_pso)
    phi1,        \* argument φ1 (minimize_pso)
    phi2,        \* argument φ2 (minimize_pso)
    stepno,      \* counter of the outer loop, range(steps)
    j,           \* minimize_de: index of the inner loop
    population,  \* minimize_de: the population array
    x_new,       \* minimize_de: the mutant, then the trial vector
    i,           \* minimize_pso: index of the inner loop
    X,           \* minimize_pso: positions
    V,           \* minimize_pso: velocities
    X_best,      \* minimize_pso: personal bests
    x_swarm,     \* minimize_pso: a numpy view, [base, row], into X or X_best
    evals,       \* number of points the objective has been evaluated at so far
    result,      \* the returned vector
    error,       \* the exception raised
    recording,   \* history: whether the pass-start snapshots below are kept in this run
    generation,  \* history: minimize_de: the population as it was when the current pass began
    swarm_start, \* history: minimize_pso: the value of x_swarm when the current pass began
    x_swarm_old, \* history: value x_swarm designated when the current particle update began
    visited      \* history: every position a particle has occupied

vars == <<call, pc, function, lower, upper, steps, n, mutation, crossover, omega,
          phi1, phi2, stepno, j, population, x_new, i, X, V, X_best, x_swarm,
          evals, result, error, recording, generation, swarm_start, x_swarm_old, visited>>

inputs == <<call, recording, function, lower, upper, steps, n, mutation, crossover, omega, phi1, phi2>>
de_vars == <<j, population, x_new, generation>>
pso_vars == <<i, X, V, X_best, x_swarm, swarm_start, x_swarm_old, visited>>

----------------------------------------------------------------------------
(* Bounds of the model *)

MaxStepsDE == 1      \* minimize_de: steps ranges over -1..MaxStepsDE
MaxStepsPSO == 2     \* minimize_pso: steps ranges over -1..MaxStepsPSO
MaxPop == 4          \* minimize_de: n ranges over 0..MaxPop
MaxSwarm == 2        \* minimize_pso: n ranges over 0..MaxSwarm
RandLevels == 2      \* np.random.rand() takes the values 0/RandLevels .. (RandLevels-1)/RandLevels

None == "None"          \* no exception raised
NoVector == <<>>        \* a name not bound to an array yet
NoView == [base |-> "None", row |-> 0]

DEBounds == { << <<0, 0>>, <<1, 1>> >> }
PSOBounds == { << <<0>>, <<3>> >> }
Objectives == {"some_function", "flat", "neg_sum"}
EdgeObjectives == {"nan_function", "raising"}    \* objectives that return NaN or raise at some points
Mutations == {1}
Omegas == {0, 1}
Phis == {1}

----------------------------------------------------------------------------
(* Vectors and numpy helpers *)

Min(a, b) == IF a < b THEN a ELSE b
Max(a, b) == IF a > b THEN a ELSE b

\* np.clip(x, lower, upper) == minimum(maximum(x, lower), upper)
Clip(x, lo, hi) == [c \in 1..Len(lo) |-> Min(Max(x[c], lo[c]), hi[c])]

\* the points np.random.uniform(lower, upper) can return
Box(lo, hi) ==
    {x \in [1..Len(lo) -> UNION {lo[c]..hi[c] : c \in 1..Len(lo)}] :
        \A c \in 1..Len(lo) : lo[c] <= x[c] /\ x[c] <= hi[c]}

InBox(x, lo, hi) == \A c \in 1..Len(lo) : lo[c] <= x[c] /\ x[c] <= hi[c]

Target == <<1, 0, 0>>

RECURSIVE SumSq(_, _)
SumSq(x, c) == IF c = 0 THEN 0 ELSE (x[c] - Target[c]) * (x[c] - Target[c]) + SumSq(x, c - 1)

RECURSIVE SumTo(_, _)
SumTo(x, c) == IF c = 0 THEN 0 ELSE x[c] + SumTo(x, c - 1)

\* the callable passed as `function`, applied to one point
Eval(f, x) ==
    CASE f = "some_function" -> SumSq(x, Len(x))
      [] f = "flat" -> 0
      [] f = "neg_sum" -> 0 - SumTo(x, Len(x))
      [] OTHER -> SumSq(x, Len(x))

\* the callable returns NaN at x
IsNaN(f, x) == f = "nan_function" /\ SumTo(x, Len(x)) = 0

\* the callable raises an exception at x
Raises(f, x) == f = "raising" /\ SumTo(x, Len(x)) >= 2

\* the objective is called on the points pts in order; the index of the first
\* call that raises (the exception leaves the optimizer, which has no
\* try/except), 0 when none does
FirstRaise_swallowed(f, pts) == 0
FirstRaise(f, pts) ==
    IF \E k \in 1..Len(pts) : Raises(f, pts[k])
    THEN CHOOSE k \in 1..Len(pts) :
             Raises(f, pts[k]) /\ \A m \in 1..(k - 1) : ~Raises(f, pts[m])
    ELSE 0

\* function(x) < function(y): a float comparison, False when either side is NaN
Less_nan_largest(f, x, y) == ~IsNaN(f, x) /\ (IsNaN(f, y) \/ Eval(f, x) < Eval(f, y))
Less(f, x, y) == ~IsNaN(f, x) /\ ~IsNaN(f, y) /\ Eval(f, x) < Eval(f, y)

\* np.argmin(function(P)) for a non-empty array P: first index of the minimum,
\* or of the first NaN when there is one
ArgMin_last(f, P) ==
    CHOOSE a \in 1..Len(P) :
        /\ \A b \in 1..Len(P) : ~Less(f, P[b], P[a])
        /\ \A b \in (a + 1)..Len(P) : Less(f, P[a], P[b])
ArgMin(f, P) ==
    IF \E a \in 1..Len(P) : IsNaN(f, P[a])
    THEN CHOOSE a \in 1..Len(P) : IsNaN(f, P[a]) /\ \A b \in 1..(a - 1) : ~IsNaN(f, P[b])
    ELSE CHOOSE a \in 1..Len(P) :
             /\ \A b \in 1..Len(P) : ~Less(f, P[b], P[a])
             /\ \A b \in 1..(a - 1) : Less(f, P[a], P[b])

\* for _ in range(steps): the body runs while the counter is below steps
InRange_inclusive(k, s) == k <= s
InRange(k, s) == k < s

----------------------------------------------------------------------------
(* minimize_de *)

InitDEWith(objectives, rec) ==
    /\ call = "minimize_de"
    /\ recording = rec
    /\ pc = "de_start"
    /\ function \in objectives
    /\ \E b \in DEBounds : lower = b[1] /\ upper = b[2]
    /\ steps \in -1..MaxStepsDE
    /\ n \in 0..MaxPop
    /\ mutation \in Mutations
    /\ crossover \in 0..RandLevels
    /\ omega = 0 /\ phi1 = 0 /\ phi2 = 0
    /\ stepno = 0 /\ j = 0 /\ population = <<>> /\ x_new = NoVector
    /\ i = 0 /\ X = <<>> /\ V = <<>> /\ X_best = <<>> /\ x_swarm = NoView
    /\ evals = 0 /\ result = NoVector /\ error = None
    /\ generation = <<>> /\ swarm_start = NoVector /\ x_swarm_old = NoVector /\ visited = {}

InitDE == InitDEWith(Objectives, FALSE)

\* population = np.random.uniform(lower, upper, size=(n, d))
DE_Init ==
    /\ pc = "de_start"
    /\ \E P \in [1..n -> Box(lower, upper)] : population' = P
    /\ generation' = IF recording THEN population' ELSE generation
    /\ stepno' = 0
    /\ j' = 1
    /\ pc' = "de_loop"
    /\ UNCHANGED <<inputs, x_new, pso_vars, evals, result, error>>

\* np.random.choice(candidates, size=3, replace=False): ordered triples of distinct candidates
Choices(candidates) ==
    {t \in candidates \X candidates \X candidates : t[1] # t[2] /\ t[1] # t[3] /\ t[2] # t[3]}

\* x1 + (x2 - x3) * mutation
Differential(P, t, F) == [c \in 1..Len(P[t[1]]) |-> P[t[1]][c] + (P[t[2]][c] - P[t[3]][c]) * F]

\* x_new = np.clip(x1 + (x2 - x3) * mutation, lower, upper)
Mutant_unclipped(P, t, F, lo, hi) == Differential(P, t, F)
Mutant(P, t, F, lo, hi) ==
    Clip(Differential(P, t, F), lo, hi)

\* population[np.random.choice(...)]: the donors are read from the one population
\* array, which holds the replacements already made in this pass (P), not from
\* a copy taken when the pass began (G)
Donors_snapshot(P, G) == G
Donors(P, G) == P

\* the mutation of individual j; np.random.choice raises when fewer than 3 candidates remain
DE_Mutation ==
    /\ pc = "de_loop"
    /\ InRange(stepno, steps)
    /\ n >= 1
    /\ LET candidates == (1..n) \ {j} IN
         IF Cardinality(candidates) < 3
         THEN /\ pc' = "error"
              /\ error' = "ValueError"
              /\ UNCHANGED x_new
         ELSE /\ \E t \in Choices(candidates) :
                    x_new' = Mutant(Donors(population, generation), t, mutation, lower, upper)
              /\ pc' = "de_crossover"
              /\ UNCHANGED error
    /\ UNCHANGED <<inputs, stepno, j, population, generation, pso_vars, evals, result>>

\* np.where(np.random.rand(d) < crossover, x_new, x_target)
Where_forced(r, CR, a, b) == [c \in 1..Len(a) |-> IF r[c] < CR \/ c = 1 THEN a[c] ELSE b[c]]
Where(r, CR, a, b) == [c \in 1..Len(a) |-> IF r[c] < CR THEN a[c] ELSE b[c]]

DE_Crossover ==
    /\ pc = "de_crossover"
    /\ \E r \in [1..Len(lower) -> 0..(RandLevels - 1)] :
           x_new' = Where(r, crossover, x_new, population[j])
    /\ pc' = "de_selection"
    /\ UNCHANGED <<inputs, stepno, j, population, generation, pso_vars, evals, result, error>>

\* if function(x_new) < function(x_target): population[j] = x_new
Select_reversed(f, P, k, trial) ==
    IF Less(f, P[k], trial) THEN [P EXCEPT ![k] = trial] ELSE P
Select_nonstrict(f, P, k, trial) ==
    IF ~Less(f, P[k], trial) THEN [P EXCEPT ![k] = trial] ELSE P
Select(f, P, k, trial) ==
    IF Less(f, trial, P[k]) THEN [P EXCEPT ![k] = trial] ELSE P

DE_Selection ==
    /\ pc = "de_selection"
    /\ LET k == FirstRaise(function, <<x_new, population[j]>>) IN
         IF k > 0
         THEN /\ evals' = evals + k
              /\ pc' = "error"
              /\ error' = "ObjectiveError"
              /\ UNCHANGED <<population, generation, j, stepno>>
         ELSE /\ evals' = evals + 2
              /\ population' = Select(function, population, j, x_new)
              /\ IF j < n THEN j' = j + 1 /\ stepno' = stepno /\ UNCHANGED generation
                          ELSE /\ j' = 1 /\ stepno' = stepno + 1
                               /\ generation' = IF recording THEN population' ELSE generation
              /\ pc' = "de_loop"
              /\ UNCHANGED error
    /\ UNCHANGED <<inputs, x_new, pso_vars, result>>

\* best = np.argmin(function(population)); return population[best]
DE_Return ==
    /\ pc = "de_loop"
    /\ ~(InRange(stepno, steps) /\ n >= 1)
    /\ LET k == FirstRaise(function, population) IN
         IF k > 0
         THEN evals' = evals + k /\ pc' = "error" /\ error' = "ObjectiveError" /\ UNCHANGED result
         ELSE /\ evals' = evals + n
              /\ IF n = 0
                 THEN pc' = "error" /\ error' = "ValueError" /\ UNCHANGED result
                 ELSE /\ pc' = "done"
                      /\ result' = population[ArgMin(function, population)]
                      /\ UNCHANGED error
    /\ UNCHANGED <<inputs, stepno, de_vars, pso_vars>>

NextDE == DE_Init \/ DE_Mutation \/ DE_Crossover \/ DE_Selection \/ DE_Return

SpecDE == InitDE /\ [][NextDE]_vars

\* minimize_de with the pass-start population recorded, for the sphere objective
\* and crossover = 1.0 (every trial vector is the clipped mutant)
InitDEPass == InitDEWith({"some_function"}, TRUE) /\ crossover = RandLevels
SpecDEPass == InitDEPass /\ [][NextDE]_vars

----------------------------------------------------------------------------
(* minimize_pso *)

InitPSOWith(objectives, rec) ==
    /\ call = "minimize_pso"
    /\ recording = rec
    /\ pc = "pso_start"
    /\ function \in objectives
    /\ \E b \in PSOBounds : lower = b[1] /\ upper = b[2]
    /\ steps \in -1..MaxStepsPSO
    /\ n \in 0..MaxSwarm
    /\ mutation = 0 /\ crossover = 0
    /\ omega \in Omegas /\ phi1 \in Phis /\ phi2 \in Phis
    /\ stepno = 0 /\ j = 0 /\ population = <<>> /\ x_new = NoVector
    /\ i = 0 /\ X = <<>> /\ V = <<>> /\ X_best = <<>> /\ x_swarm = NoView
    /\ evals = 0 /\ result = NoVector /\ error = None
    /\ generation = <<>> /\ swarm_start = NoVector /\ x_swarm_old = NoVector /\ visited = {}

InitPSO == InitPSOWith(Objectives, FALSE)

\* the array a view designates: x_swarm shares the memory of a row of X or of X_best
Deref(view, Xs, Xb) == IF view.base = "X" THEN Xs[view.row] ELSE Xb[view.row]

\* x_swarm = X[np.argmin(function(X))]: basic indexing returns a view of the row of X
InitialView_first(f, Xs) == [base |-> "X", row |-> 1]
InitialView(f, Xs) == [base |-> "X", row |-> ArgMin(f, Xs)]

\* X, V = np.random.uniform(...); X_best = X.copy(); x_swarm = X[np.argmin(function(X))]
PSO_Init ==
    /\ pc = "pso_start"
    /\ \E P \in [1..n -> Box(lower, upper)] : X' = P
    /\ \E u \in [1..n -> [1..Len(lower) -> {-1, 0, 1}]] :
           V' = [p \in 1..n |-> [c \in 1..Len(lower) |-> u[p][c] * (upper[c] - lower[c])]]
    /\ X_best' = X'
    /\ LET k == FirstRaise(function, X') IN
         IF k > 0
         THEN /\ evals' = evals + k
              /\ pc' = "error" /\ error' = "ObjectiveError"
              /\ UNCHANGED <<x_swarm, visited>>
         ELSE /\ evals' = evals + n
              /\ IF n = 0
                 THEN pc' = "error" /\ error' = "ValueError" /\ UNCHANGED <<x_swarm, visited>>
                 ELSE /\ pc' = "pso_loop"
                      /\ x_swarm' = InitialView(function, X')
                      /\ visited' = {X'[p] : p \in 1..n}
                      /\ UNCHANGED error
    /\ swarm_start' = IF recording /\ pc' = "pso_loop"
                      THEN Deref(x_swarm', X', X_best') ELSE swarm_start
    /\ stepno' = 0
    /\ i' = 1
    /\ UNCHANGED <<inputs, de_vars, result, x_swarm_old>>

\* the x_swarm read by the velocity update is the one name x_swarm, which holds
\* the updates already made in this pass (cur), not a value saved when the pass
\* began (start)
Social_snapshot(cur, start) == start
Social(cur, start) == cur

\* V[i] = ω * V[i] + r1 * (X_best[i] - X[i]) + r2 * (x_swarm - X[i])
Velocity_no_inertia(w, v, r1, r2, x, xb, xs) ==
    [c \in 1..Len(x) |-> r1[c] * (xb[c] - x[c]) + r2[c] * (xs[c] - x[c])]
Velocity(w, v, r1, r2, x, xb, xs) ==
    [c \in 1..Len(x) |-> w * v[c] + r1[c] * (xb[c] - x[c]) + r2[c] * (xs[c] - x[c])]

PSO_Velocity ==
    /\ pc = "pso_loop"
    /\ InRange(stepno, steps)
    /\ n >= 1
    /\ \E r1 \in [1..Len(lower) -> 0..phi1], r2 \in [1..Len(lower) -> 0..phi2] :
           V' = [V EXCEPT ![i] = Velocity(omega, V[i], r1, r2, X[i], X_best[i],
                                         Social(Deref(x_swarm, X, X_best), swarm_start))]
    /\ x_swarm_old' = Deref(x_swarm, X, X_best)
    /\ pc' = "pso_position"
    /\ UNCHANGED <<inputs, stepno, de_vars, i, X, X_best, x_swarm, swarm_start, visited,
                   evals, result, error>>

\* X[i] = np.clip(X[i] + V[i], lower, upper)
Move_unclipped(x, v, lo, hi) == [c \in 1..Len(lo) |-> x[c] + v[c]]
Move(x, v, lo, hi) == Clip([c \in 1..Len(lo) |-> x[c] + v[c]], lo, hi)

PSO_Position ==
    /\ pc = "pso_position"
    /\ X' = [X EXCEPT ![i] = Move(X[i], V[i], lower, upper)]
    /\ visited' = visited \cup {X'[i]}
    /\ pc' = "pso_personal"
    /\ UNCHANGED <<inputs, stepno, de_vars, i, V, X_best, x_swarm, swarm_start, x_swarm_old,
                   evals, result, error>>

\* if function(X[i]) < function(X_best[i]): X_best[i] = X[i]
PersonalBest_reversed(f, Xs, Xb, p) ==
    IF Less(f, Xb[p], Xs[p]) THEN [Xb EXCEPT ![p] = Xs[p]] ELSE Xb
PersonalBest(f, Xs, Xb, p) == IF Less(f, Xs[p], Xb[p]) THEN [Xb EXCEPT ![p] = Xs[p]] ELSE Xb

PSO_PersonalBest ==
    /\ pc = "pso_personal"
    /\ LET k == FirstRaise(function, <<X[i], X_best[i]>>) IN
         IF k > 0
         THEN /\ evals' = evals + k
              /\ pc' = "error" /\ error' = "ObjectiveError"
              /\ UNCHANGED X_best
         ELSE /\ evals' = evals + 2
              /\ X_best' = PersonalBest(function, X, X_best, i)
              /\ pc' = "pso_swarm"
              /\ UNCHANGED error
    /\ UNCHANGED <<inputs, stepno, de_vars, i, X, V, x_swarm, swarm_start, x_swarm_old, visited,
                   result>>

\* if function(X_best[i]) < function(x_swarm): x_swarm = X_best[i]   (a view of the row of X_best)
SwarmBest_reversed(f, view, Xs, Xb, p) ==
    IF Less(f, Deref(view, Xs, Xb), Xb[p]) THEN [base |-> "X_best", row |-> p] ELSE view
SwarmBest(f, view, Xs, Xb, p) ==
    IF Less(f, Xb[p], Deref(view, Xs, Xb)) THEN [base |-> "X_best", row |-> p] ELSE view

PSO_SwarmBest ==
    /\ pc = "pso_swarm"
    /\ LET k == FirstRaise(function, <<X_best[i], Deref(x_swarm, X, X_best)>>) IN
         IF k > 0
         THEN /\ evals' = evals + k
              /\ pc' = "error" /\ error' = "ObjectiveError"
              /\ UNCHANGED <<x_swarm, swarm_start, i, stepno>>
         ELSE /\ evals' = evals + 2
              /\ x_swarm' = SwarmBest(function, x_swarm, X, X_best, i)
              /\ IF i < n THEN i' = i + 1 /\ stepno' = stepno /\ UNCHANGED swarm_start
                          ELSE /\ i' = 1 /\ stepno' = stepno + 1
                               /\ swarm_start' = IF recording THEN Deref(x_swarm', X, X_best)
                                                               ELSE swarm_start
              /\ pc' = "pso_loop"
              /\ UNCHANGED error
    /\ UNCHANGED <<inputs, de_vars, X, V, X_best, x_swarm_old, visited, result>>

\* return x_swarm
PSO_Return ==
    /\ pc = "pso_loop"
    /\ ~(InRange(stepno, steps) /\ n >= 1)
    /\ result' = Deref(x_swarm, X, X_best)
    /\ pc' = "done"
    /\ UNCHANGED <<inputs, stepno, de_vars, pso_vars, evals, error>>

NextPSO ==
    PSO_Init \/ PSO_Velocity \/ PSO_Position \/ PSO_PersonalBest \/ PSO_SwarmBest \/ PSO_Return

SpecPSO == InitPSO /\ [][NextPSO]_vars

\* minimize_pso with the pass-start value of x_swarm recorded
InitPSOPass == InitPSOWith(Objectives, TRUE)
SpecPSOPass == InitPSOPass /\ [][NextPSO]_vars

----------------------------------------------------------------------------
(* either optimizer *)

Init == InitDE \/ InitPSO
Next == NextDE \/ NextPSO
Spec == Init /\ [][Next]_vars

\* either optimizer, called with an objective that returns NaN or raises
InitEdge == InitDEWith(EdgeObjectives, FALSE) \/ InitPSOWith(EdgeObjectives, FALSE)
SpecEdge == InitEdge /\ [][Next]_vars

----------------------------------------------------------------------------
(* Properties *)

IsDE == call = "minimize_de"
IsPSO == call = "minimize_pso"
AtLoopHead == pc = "pso_loop" \/ (pc = "done" /\ IsPSO)
SwarmBestValue == Deref(x_swarm, X, X_best)
Leq(f, x, y) == Eval(f, x) <= Eval(f, y)
PrevJ == IF j = 1 THEN n ELSE j - 1
PrevI == IF i = 1 THEN n ELSE i - 1

\* C1: minimize_pso: at the end of every particle update (hence of every step)
\* objective(x_swarm) is <= its value at the end of the previous update, or
\* right after the initialization for the first update.
C1_SwarmMonotonic ==
    (pc = "pso_loop" /\ x_swarm_old # NoVector) => Leq(function, SwarmBestValue, x_swarm_old)

\* a particle update has ended in which the particle x_swarm is a view of moved
\* to a worse position, and the swarm best did not get worse
C1_Witness ==
    /\ pc = "pso_loop"
    /\ x_swarm_old # NoVector
    /\ Less(function, x_swarm_old, X[PrevI])
    /\ x_swarm = [base |-> "X_best", row |-> PrevI]
    /\ SwarmBestValue = x_swarm_old

\* C2: minimize_pso: after the initialization and after every completed particle
\* update x_swarm is a visited position whose objective is <= the objective of
\* every visited position and of every personal best.
C2_SwarmIsBestVisited ==
    AtLoopHead =>
        /\ SwarmBestValue \in visited
        /\ \A v \in visited : Leq(function, SwarmBestValue, v)
        /\ \A p \in 1..n : Leq(function, SwarmBestValue, X_best[p])

\* after a full step the swarm best is a position no particle started at
C2_Witness ==
    /\ pc = "pso_loop"
    /\ stepno >= 1
    /\ x_swarm.base = "X_best"
    /\ Cardinality(visited) > n
    /\ \E v \in visited : Less(function, SwarmBestValue, v)

\* C3: minimize_de: every individual of the population, every mutant and trial
\* vector and the returned vector lies within [lower, upper] on every axis.
C3_DEBounds ==
    IsDE =>
        /\ \A k \in 1..Len(population) : InBox(population[k], lower, upper)
        /\ x_new # NoVector => InBox(x_new, lower, upper)
        /\ result # NoVector => InBox(result, lower, upper)

\* a mutant whose differential x1 + (x2 - x3) * mutation fell outside the box
C3_Witness ==
    /\ pc = "de_crossover"
    /\ \E t \in Choices((1..n) \ {j}) :
           /\ ~InBox(Differential(population, t, mutation), lower, upper)
           /\ x_new = Clip(Differential(population, t, mutation), lower, upper)

\* C4: minimize_pso: every position X[p], every personal best X_best[p],
\* x_swarm and the returned vector lie within [lower, upper] on every axis.
C4_PSOBounds ==
    IsPSO =>
        /\ \A p \in 1..Len(X) : InBox(X[p], lower, upper) /\ InBox(X_best[p], lower, upper)
        /\ x_swarm # NoView => InBox(SwarmBestValue, lower, upper)
        /\ result # NoVector => InBox(result, lower, upper)

\* a particle moved with a velocity larger than the box is wide
C4_Witness ==
    /\ pc = "pso_personal"
    /\ \E c \in 1..Len(lower) :
           /\ V[i][c] > upper[c] - lower[c]
           /\ X[i][c] = upper[c]

PopMin(f, P) == Eval(f, P[ArgMin(f, P)])

\* C5: minimize_de: no step of the run, in particular no selection, raises the
\* minimum of the objective over the population.
C5_PopMinMonotonic ==
    [][(population # <<>> /\ population' # population) =>
           PopMin(function, population') <= PopMin(function, population)]_vars

\* the last selection put a trial into the population that is strictly better
\* than every other individual
C5_Witness ==
    /\ pc = "de_loop"
    /\ x_new # NoVector
    /\ population[PrevJ] = x_new
    /\ \A k \in (1..n) \ {PrevJ} : Less(function, x_new, population[k])

\* C6: minimize_de with n < 4 raises before any evaluation of the objective
\* and returns nothing, for every steps; with n = 4 it raises nothing.
C6_SmallPopulationRejected ==
    (IsDE /\ steps >= 0) =>
        /\ n < 4 => (pc # "done" /\ result = NoVector /\ (pc = "error" => evals = 0))
        /\ n = 4 => pc # "error"

\* C7: with steps < 0 both optimizers raise before any evaluation of the
\* objective and never return a vector.
C7_NegativeStepsRejected ==
    steps < 0 => (pc # "done" /\ result = NoVector /\ (pc = "error" => evals = 0))

\* C8: with steps = 0 the initial population / swarm is never modified;
\* minimize_de returns its first minimum-objective individual and minimize_pso
\* returns the first minimum-objective element of the initial positions X.
C8_ZeroStepNoOp ==
    [][steps = 0 =>
         /\ pc \notin {"de_start", "pso_start"} =>
                /\ population' = population
                /\ X' = X /\ V' = V /\ X_best' = X_best /\ x_swarm' = x_swarm
         /\ (pc' = "done" /\ IsDE) =>
                \E b \in 1..n :
                    /\ result' = population[b]
                    /\ \A k \in 1..n : Leq(function, population[b], population[k])
                    /\ \A k \in 1..(b - 1) : Less(function, population[b], population[k])
         /\ (pc' = "done" /\ IsPSO) =>
                \E b \in 1..n :
                    /\ result' = X[b]
                    /\ x_swarm = [base |-> "X", row |-> b]
                    /\ \A k \in 1..n : Leq(function, X[b], X[k])
                    /\ \A k \in 1..(b - 1) : Less(function, X[b], X[k])]_vars

\* a zero-step call has returned an individual that is not the first of the array
C8_Witness ==
    /\ steps = 0
    /\ pc = "done"
    /\ \/ IsDE /\ result # population[1]
       \/ IsPSO /\ result # X[1]

\* C9: minimize_de returns, after exactly `steps` passes over the population,
\* the individual of the final population with the minimal objective, the one
\* of smallest index among equals.
C9_ReturnsFirstMinimum ==
    (pc = "done" /\ IsDE) =>
        /\ stepno = Max(steps, 0)
        /\ j = 1
        /\ \E b \in 1..n :
               /\ result = population[b]
               /\ \A k \in 1..n : Leq(function, population[b], population[k])
               /\ \A k \in 1..(b - 1) : Less(function, population[b], population[k])

\* a run of at least one pass has returned while two distinct individuals share
\* the minimal objective
C9_Witness ==
    /\ pc = "done" /\ IsDE
    /\ steps >= 1
    /\ \E a \in 1..n, b \in 1..n :
           /\ a < b
           /\ population[a] # population[b]
           /\ result = population[a]
           /\ Eval(function, population[a]) = Eval(function, population[b])

\* the points the step about to be taken evaluates the objective at, in order
PointsEvaluated ==
    CASE pc = "de_selection" -> <<x_new, population[j]>>
      [] pc = "de_loop" /\ ~(InRange(stepno, steps) /\ n >= 1) -> population
      [] pc = "pso_start" -> X'
      [] pc = "pso_personal" -> <<X[i], X_best[i]>>
      [] pc = "pso_swarm" -> <<X_best[i], SwarmBestValue>>
      [] OTHER -> <<>>

\* C11: when an evaluation of the objective raises, the run ends at once with
\* that error: the points after the failing one are not evaluated, nothing is
\* evaluated afterwards and no vector is returned.
C11_ObjectiveFailurePropagates ==
    [][ /\ (\E k \in 1..Len(PointsEvaluated) : Raises(function, PointsEvaluated[k])) =>
               /\ pc' = "error"
               /\ error' = "ObjectiveError"
               /\ result' = NoVector
               /\ \E k \in 1..Len(PointsEvaluated) :
                      /\ Raises(function, PointsEvaluated[k])
                      /\ \A m \in 1..(k - 1) : ~Raises(function, PointsEvaluated[m])
                      /\ evals' = evals + k
        /\ pc = "error" => (pc' = "error" /\ evals' = evals /\ result' = NoVector) ]_vars

\* a selection of minimize_de ended with the error raised on the trial vector,
\* the target not having been evaluated
C11_Witness ==
    /\ IsDE
    /\ pc = "error"
    /\ error = "ObjectiveError"
    /\ x_new # NoVector
    /\ Raises(function, x_new)
    /\ ~Raises(function, population[j])
    /\ evals % 2 = 1

\* C20: an individual of minimize_de whose objective is NaN is never replaced,
\* a personal best of minimize_pso whose objective is NaN is never updated, and
\* a NaN objective value raises no error.
C20_NaNFreeze ==
    [][ /\ \A k \in 1..Len(population) :
               IsNaN(function, population[k]) => population'[k] = population[k]
        /\ \A p \in 1..Len(X_best) :
               IsNaN(function, X_best[p]) => X_best'[p] = X_best[p]
        /\ (function = "nan_function" /\ pc' = "error") =>
               (error' = "ValueError" /\ (n = 0 \/ (IsDE /\ n < 4))) ]_vars

\* a selection has left a NaN individual in place although the trial vector
\* was another point with a real objective value
C20_Witness ==
    /\ IsDE
    /\ pc = "de_loop"
    /\ x_new # NoVector
    /\ IsNaN(function, population[PrevJ])
    /\ ~IsNaN(function, x_new)
    /\ x_new # population[PrevJ]

\* C12: the value of x_swarm changes only in step 5, or in step 4 when the
\* personal best it designates improves; the position update of step 3 never
\* changes it, whichever particle moves.
C12_SwarmBestFrame ==
    [][ (x_swarm # NoView /\ SwarmBestValue' # SwarmBestValue) =>
            \/ pc = "pso_swarm"
            \/ pc = "pso_personal" /\ x_swarm = [base |-> "X_best", row |-> i] ]_vars

MutantsOf(P, k) == {Mutant(P, t, mutation, lower, upper) : t \in Choices((1..n) \ {k})}

\* C14: within a pass of minimize_de the donors of every mutant are read from
\* the population as it is now, replacements of this pass included; there is
\* no copy of the population taken when the pass began.
C14_DonorsFromUpdatedPopulation ==
    pc = "de_crossover" => x_new \in MutantsOf(population, j)

\* a mutant that the population of the beginning of the pass cannot produce
C14_Witness ==
    /\ recording
    /\ pc = "de_crossover"
    /\ j > 1
    /\ generation # population
    /\ x_new \notin MutantsOf(generation, j)

\* the velocities the update of particle p can produce from v when it reads xs as x_swarm
VelocitiesFrom(v, p, xs) ==
    {[c \in 1..Len(lower) |->
          omega * v[c] + r1[c] * (X_best[p][c] - X[p][c]) + r2[c] * (xs[c] - X[p][c])] :
       r1 \in [1..Len(lower) -> 0..phi1], r2 \in [1..Len(lower) -> 0..phi2]}

\* C15: within a pass of minimize_pso the velocity update reads the x_swarm of
\* the moment, updates of this pass included, and step 5 compares the X_best[i]
\* that step 4 has just written; nothing is read from a pass-start snapshot.
C15_ReadsUpdatedSwarmBest ==
    [][ /\ (pc = "pso_loop" /\ pc' = "pso_position") =>
               V'[i] \in VelocitiesFrom(V[i], i, SwarmBestValue)
        /\ (pc = "pso_swarm" /\ pc' = "pso_loop") =>
               x_swarm' = IF Eval(function, X_best[i]) < Eval(function, SwarmBestValue)
                          THEN [base |-> "X_best", row |-> i] ELSE x_swarm ]_vars

\* the velocity of a later particle has been updated after x_swarm changed in this pass
C15_Witness ==
    /\ recording
    /\ pc = "pso_position"
    /\ i > 1
    /\ SwarmBestValue # swarm_start
    /\ X[i] # SwarmBestValue
    /\ X[i] # swarm_start

\* C16: the selection of minimize_de replaces population[j] by the trial
\* vector exactly when objective(trial) < objective(population[j]), leaves it
\* alone when the two are equal, and touches no other individual.
C16_SelectionStrict ==
    [][ (pc = "de_selection" /\ pc' = "de_loop") =>
            /\ population'[j] = IF Eval(function, x_new) < Eval(function, population[j])
                                THEN x_new ELSE population[j]
            /\ \A k \in (1..n) \ {j} : population'[k] = population[k] ]_vars

\* a selection has kept an individual against a different trial vector of equal objective
C16_Witness ==
    /\ pc = "de_loop"
    /\ x_new # NoVector
    /\ x_new # population[PrevJ]
    /\ Eval(function, x_new) = Eval(function, population[PrevJ])

\* C17: every coordinate of the trial vector is the mutant's or the target's;
\* no coordinate is forced from the mutant: with crossover = 0 the trial is the
\* target, the population never changes and the result is its first minimum.
C17_CrossoverForcesNothing ==
    [][ /\ (pc = "de_crossover" /\ pc' = "de_selection") =>
               /\ \A c \in 1..Len(lower) : x_new'[c] = x_new[c] \/ x_new'[c] = population[j][c]
               /\ crossover = 0 => x_new' = population[j]
               /\ crossover = RandLevels => x_new' = x_new
        /\ (crossover = 0 /\ population # <<>>) => population' = population
        /\ (crossover = 0 /\ IsDE /\ pc' = "done") =>
               \E b \in 1..n :
                   /\ result' = population[b]
                   /\ \A k \in 1..n : Leq(function, population[b], population[k])
                   /\ \A k \in 1..(b - 1) : Less(function, population[b], population[k]) ]_vars

\* with crossover = 0 a pass has ended although a strictly better mutant existed
C17_Witness ==
    /\ IsDE
    /\ pc = "done"
    /\ crossover = 0
    /\ steps >= 1
    /\ \E k \in 1..n : \E y \in MutantsOf(population, k) : Less(function, y, population[k])

\* C18: clamping the position leaves the velocity as step 2 computed it, and
\* the next velocity update starts from ω times that velocity.
C18_ClampKeepsVelocity ==
    [][ /\ pc = "pso_position" => V' = V
        /\ (pc = "pso_loop" /\ pc' = "pso_position") =>
               /\ V'[i] \in VelocitiesFrom(V[i], i, SwarmBestValue)
               /\ \A p \in (1..n) \ {i} : V'[p] = V[p] ]_vars

\* a particle sits on a face of the box with a velocity pointing out of it
\* that is larger than the box is wide
C18_Witness ==
    /\ pc = "pso_loop"
    /\ stepno >= 1
    /\ \E p \in 1..n, c \in 1..Len(lower) :
           \/ X[p][c] = upper[c] /\ V[p][c] > upper[c] - lower[c]
           \/ X[p][c] = lower[c] /\ V[p][c] < lower[c] - upper[c]

\* C19: X_best[i] changes only in step 4 of particle i, only to the position
\* X[i] and only when that is strictly better; after every completed particle
\* update objective(X_best[p]) <= objective(X[p]) for every particle.
C19_PersonalBest ==
    [][ /\ (X_best # <<>> /\ X_best' # X_best) =>
               /\ pc = "pso_personal"
               /\ X_best'[i] = X[i]
               /\ Eval(function, X_best'[i]) < Eval(function, X_best[i])
               /\ \A p \in (1..n) \ {i} : X_best'[p] = X_best[p]
        /\ (pc = "pso_swarm" /\ pc' = "pso_loop") =>
               \A p \in 1..n : Leq(function, X_best'[p], X'[p]) ]_vars

\* a particle has moved to a worse position and its personal best has stayed
C19_Witness ==
    /\ pc = "pso_loop"
    /\ stepno >= 1
    /\ \E p \in 1..n : Less(function, X_best[p], X[p])

====
